---- MODULE Spec2Model ----
(***************************************************************************)
(* Fifo4b (src/Fifo4b.hpp): a bounded single-producer/single-consumer ring *)
(* FIFO with constrained cursors, a sentinel slot and cached cursors.      *)
(*                                                                         *)
(* Three threads are modelled: the producer (push), the consumer (pop) and *)
(* an observer (size/empty/full).  Every atomic load or store, every       *)
(* access to a private cached cursor and every access to a ring slot is    *)
(* one step.  The acquire/release pairs on the two cursors order the slot  *)
(* accesses, so the interleaving of these steps is the memory model.       *)
(*                                                                         *)
(* The atomics pushCursor_ and popCursor_ carry no initializer; they are   *)
(* value-initialized by std::atomic's default constructor (C++20).         *)
(***************************************************************************)
EXTENDS Integers, Sequences, FiniteSets, TLC

\* Largest capacity the queue is constructed with.
MaxCapacity == 2

\* The producer pushes the known sequence 0..M, the consumer pops M+1 values.
M == 6

\* size_type is unsigned: arithmetic is modulo this (scaled down from 2^64).
SizeTypeModulus == 16

\* A ring slot that holds no live element (raw or destroyed storage).
Dead == -1

Values == 0..M

VARIABLES
    capacity_,          \* capacity_
    ring_,              \* ring_[0..capacity_]
    pushCursor_,        \* atomic, written by push
    popCursorCached_,   \* private to push
    popCursor_,         \* atomic, written by pop
    pushCursorCached_,  \* private to pop
    ppc,                \* producer's position in push
    pPushCursor,        \* push: local pushCursor
    pValue,             \* push: argument value
    pRet,               \* push: value returned by the last call that returned
    pSteps,             \* push: steps taken so far by the call in progress
    pRefreshes,         \* push: loads of popCursor_ in the current call
    cpc,                \* consumer's position in pop
    cPopCursor,         \* pop: local popCursor
    cValue,             \* pop: the caller's variable `value`
    cRet,               \* pop: value returned by the last call that returned
    cSteps,             \* pop: steps taken so far by the call in progress
    cRefreshes,         \* pop: loads of pushCursor_ in the current call
    opc,                \* observer's position
    oOp,                \* observer: "size", "empty" or "full"
    oPushCursor,        \* observer: local pushCursor
    oPopCursor,         \* observer: local popCursor
    oRet,               \* observer: value returned by the last size()
    oRetBool,           \* observer: value returned by the last empty()/full()
    pushed,             \* values of the pushes that returned true
    popped,             \* values of the pops that returned true
    entry,              \* sequential driver: the state before its last call
    abs                 \* sequential driver: the abstract bounded FIFO

queue == <<capacity_, ring_, pushCursor_, popCursorCached_, popCursor_,
           pushCursorCached_>>
producer == <<ppc, pPushCursor, pValue, pRet, pSteps, pRefreshes>>
consumer == <<cpc, cPopCursor, cValue, cRet, cSteps, cRefreshes>>
observer == <<opc, oOp, oPushCursor, oPopCursor, oRet, oRetBool>>
driver == <<entry, abs>>
vars == <<queue, producer, consumer, observer, pushed, popped, driver>>

\* Unsigned subtraction and addition on size_type.
Sub(a, b) == (a - b) % SizeTypeModulus
Add(a, b) == (a + b) % SizeTypeModulus

\* full() without the case of a push cursor ahead of the pop cursor.
full_NoWrapCase(pushCursor, popCursor) ==
    IF pushCursor < popCursor THEN pushCursor = Sub(popCursor, 1)
    ELSE FALSE

\* full() with <= for == in its first case.
full_LessEq(pushCursor, popCursor) ==
    IF pushCursor < popCursor THEN pushCursor <= Sub(popCursor, 1)
    ELSE IF popCursor < pushCursor THEN popCursor = Sub(pushCursor, capacity_)
    ELSE FALSE

\* full(size_type pushCursor, size_type popCursor)
full(pushCursor, popCursor) ==
    IF pushCursor < popCursor THEN pushCursor = Sub(popCursor, 1)
    ELSE IF popCursor < pushCursor THEN popCursor = Sub(pushCursor, capacity_)
    ELSE FALSE

\* empty(size_type pushCursor, size_type popCursor)
empty(pushCursor, popCursor) == pushCursor = popCursor

\* size() without the case of a pop cursor ahead of the push cursor.
size_NoWrapCase(pushCursor, popCursor) == Sub(pushCursor, popCursor)

\* size() without the + 1 of its second case.
size_ForgotOne(pushCursor, popCursor) ==
    IF popCursor <= pushCursor THEN Sub(pushCursor, popCursor)
    ELSE Sub(capacity_, Sub(popCursor, pushCursor))

\* The value size() returns for the two cursors it loaded.
size(pushCursor, popCursor) ==
    IF popCursor <= pushCursor THEN Sub(pushCursor, popCursor)
    ELSE Sub(capacity_, Sub(popCursor, Add(pushCursor, 1)))

\* A cursor advanced modulo capacity_ instead of capacity_ + 1.
NextCursor_ModCapacity(cursor) ==
    IF Add(cursor, 1) >= capacity_ THEN 0 ELSE Add(cursor, 1)

\* The value push and pop store into their cursor.
NextCursor(cursor) ==
    IF cursor = capacity_ THEN 0 ELSE Add(cursor, 1)

\* The values the subexpressions of full(pushCursor, popCursor) have before
\* any reduction modulo the width of size_type: popCursor - 1 in its first
\* case, pushCursor - capacity_ in its second.
fullArith(pushCursor, popCursor) ==
    IF pushCursor < popCursor THEN {popCursor - 1}
    ELSE IF popCursor < pushCursor THEN {pushCursor - capacity_}
    ELSE {}

\* The same for size(): pushCursor - popCursor, or pushCursor + 1,
\* popCursor - (pushCursor + 1) and capacity_ - (popCursor - (pushCursor + 1)).
sizeArith(pushCursor, popCursor) ==
    IF popCursor <= pushCursor THEN {pushCursor - popCursor}
    ELSE {pushCursor + 1, popCursor - (pushCursor + 1),
          capacity_ - (popCursor - (pushCursor + 1))}

\* The same for the cursor advance of push and pop: 0, or cursor + 1.
NextCursorArith(cursor) ==
    IF cursor = capacity_ THEN {0} ELSE {cursor + 1}

\* What a read of ring_[i] can yield: the element, or anything when the slot
\* holds no live element.
ReadSlot(i) == IF ring_[i] = Dead THEN Values ELSE {ring_[i]}

\* The queue's state and the caller's output variable, as a caller that
\* is about to make the call `op` finds them.
Snapshot(op) ==
    [op |-> op, ring |-> ring_, pushCursor |-> pushCursor_,
     popCursorCached |-> popCursorCached_, popCursor |-> popCursor_,
     pushCursorCached |-> pushCursorCached_, value |-> cValue,
     count |-> Len(pushed) - Len(popped)]

\* Mutant: the pop cursor starts at the last slot.
Construct_PopAtCapacity(c) ==
    /\ capacity_ = c
    /\ ring_ = [i \in 0..c |-> Dead]
    /\ pushCursor_ = 0
    /\ popCursorCached_ = 0
    /\ popCursor_ = c
    /\ pushCursorCached_ = 0

Construct(c) ==
    /\ capacity_ = c
    /\ ring_ = [i \in 0..c |-> Dead]
    /\ pushCursor_ = 0
    /\ popCursorCached_ = 0
    /\ popCursor_ = 0
    /\ pushCursorCached_ = 0

\* No call has been made yet.
NoCallYet ==
    /\ ppc = "idle" /\ pPushCursor = 0 /\ pValue = 0 /\ pRet = FALSE
    /\ pSteps = 0 /\ pRefreshes = 0
    /\ cpc = "idle" /\ cPopCursor = 0 /\ cValue = Dead /\ cRet = FALSE
    /\ cSteps = 0 /\ cRefreshes = 0
    /\ opc = "idle" /\ oOp = "size" /\ oPushCursor = 0 /\ oPopCursor = 0
    /\ oRet = 0 /\ oRetBool = FALSE
    /\ pushed = <<>>
    /\ popped = <<>>
    /\ entry = Snapshot("none")
    /\ abs = [q |-> <<>>, ret |-> FALSE, val |-> Dead]

Init ==
    /\ \E c \in 1..MaxCapacity : Construct(c)
    /\ NoCallYet

\* The constructor takes any size_type: capacity 0 included.
InitAnyCapacity ==
    /\ \E c \in 0..MaxCapacity : Construct(c)
    /\ NoCallYet

----------------------------------------------------------------------------
\* push

PushCall ==
    /\ ppc = "idle"
    /\ Len(pushed) <= M
    /\ pValue' = Len(pushed)
    /\ pPushCursor' = pushCursor_
    /\ ppc' = "check"
    /\ pSteps' = 1
    /\ pRefreshes' = 0
    /\ UNCHANGED <<queue, pRet, consumer, observer, pushed, popped>>

\* push loading popCursor_ on every call, whatever the cache says.
PushCheckCache_AlwaysRefresh ==
    /\ ppc = "check"
    /\ ppc' = "refresh"
    /\ pSteps' = pSteps + 1
    /\ UNCHANGED <<queue, pPushCursor, pValue, pRet, pRefreshes,
                   consumer, observer, pushed, popped, driver>>

PushCheckCache ==
    /\ ppc = "check"
    /\ ppc' = IF full(pPushCursor, popCursorCached_) THEN "refresh"
              ELSE "construct"
    /\ pSteps' = pSteps + 1
    /\ UNCHANGED <<queue, pPushCursor, pValue, pRet, pRefreshes,
                   consumer, observer, pushed, popped, driver>>

PushRefresh ==
    /\ ppc = "refresh"
    /\ popCursorCached_' = popCursor_
    /\ ppc' = "recheck"
    /\ pSteps' = pSteps + 1
    /\ pRefreshes' = pRefreshes + 1
    /\ UNCHANGED <<capacity_, ring_, pushCursor_, popCursor_,
                   pushCursorCached_, pPushCursor, pValue, pRet,
                   consumer, observer, pushed, popped, driver>>

\* push going on after the refresh without the second check.
PushRecheck_NoCheck ==
    /\ ppc = "recheck"
    /\ ppc' = "construct"
    /\ pSteps' = pSteps + 1
    /\ UNCHANGED <<queue, pRet, pPushCursor, pValue, pRefreshes, consumer,
                   observer, pushed, popped, driver>>

\* push waiting for room instead of returning false.
PushRecheck_Spin ==
    /\ ppc = "recheck"
    /\ IF full(pPushCursor, popCursorCached_)
       THEN ppc' = "refresh"
       ELSE ppc' = "construct"
    /\ pSteps' = pSteps + 1
    /\ UNCHANGED <<queue, pRet, pPushCursor, pValue, pRefreshes, consumer,
                   observer, pushed, popped, driver>>

PushRecheck ==
    /\ ppc = "recheck"
    /\ IF full(pPushCursor, popCursorCached_)
       THEN /\ ppc' = "idle"
            /\ pRet' = FALSE
            /\ pPushCursor' = 0 /\ pValue' = 0
            /\ pSteps' = 0 /\ pRefreshes' = 0
       ELSE /\ ppc' = "construct"
            /\ pSteps' = pSteps + 1
            /\ UNCHANGED <<pRet, pPushCursor, pValue, pRefreshes>>
    /\ UNCHANGED <<queue, consumer, observer, pushed, popped, driver>>

PushConstruct ==
    /\ ppc = "construct"
    /\ ring_' = [ring_ EXCEPT ![pPushCursor] = pValue]
    /\ ppc' = "store"
    /\ pSteps' = pSteps + 1
    /\ UNCHANGED <<capacity_, pushCursor_, popCursorCached_, popCursor_,
                   pushCursorCached_, pPushCursor, pValue, pRet, pRefreshes,
                   consumer, observer, pushed, popped, driver>>

PushStore ==
    /\ ppc = "store"
    /\ pushCursor_' = NextCursor(pPushCursor)
    /\ ppc' = "idle"
    /\ pRet' = TRUE
    /\ pPushCursor' = 0 /\ pValue' = 0
    /\ pSteps' = 0 /\ pRefreshes' = 0
    /\ pushed' = Append(pushed, pValue)
    /\ UNCHANGED <<capacity_, ring_, popCursorCached_, popCursor_,
                   pushCursorCached_, consumer, observer, popped, driver>>

----------------------------------------------------------------------------
\* pop

PopCall ==
    /\ cpc = "idle"
    /\ Len(popped) <= M
    /\ cPopCursor' = popCursor_
    /\ cpc' = "check"
    /\ cSteps' = 1
    /\ cRefreshes' = 0
    /\ UNCHANGED <<queue, cValue, cRet, producer, observer, pushed, popped>>

PopCheckCache ==
    /\ cpc = "check"
    /\ cpc' = IF empty(pushCursorCached_, cPopCursor) THEN "refresh"
              ELSE "read"
    /\ cSteps' = cSteps + 1
    /\ UNCHANGED <<queue, cPopCursor, cValue, cRet, cRefreshes,
                   producer, observer, pushed, popped, driver>>

\* pop refreshing the producer's cache instead of its own.
PopRefresh_WrongCache ==
    /\ cpc = "refresh"
    /\ popCursorCached_' = pushCursor_
    /\ cpc' = "recheck"
    /\ cSteps' = cSteps + 1
    /\ cRefreshes' = cRefreshes + 1
    /\ UNCHANGED <<capacity_, ring_, pushCursor_, popCursor_,
                   pushCursorCached_, cPopCursor, cValue, cRet, producer,
                   observer, pushed, popped, driver>>

\* pop rechecking without having loaded pushCursor_.
PopRefresh_NoLoad ==
    /\ cpc = "refresh"
    /\ cpc' = "recheck"
    /\ cSteps' = cSteps + 1
    /\ cRefreshes' = cRefreshes + 1
    /\ UNCHANGED <<queue, cPopCursor, cValue, cRet, producer, observer,
                   pushed, popped, driver>>

PopRefresh ==
    /\ cpc = "refresh"
    /\ pushCursorCached_' = pushCursor_
    /\ cpc' = "recheck"
    /\ cSteps' = cSteps + 1
    /\ cRefreshes' = cRefreshes + 1
    /\ UNCHANGED <<capacity_, ring_, pushCursor_, popCursorCached_,
                   popCursor_, cPopCursor, cValue, cRet,
                   producer, observer, pushed, popped, driver>>

PopRecheck ==
    /\ cpc = "recheck"
    /\ IF empty(pushCursorCached_, cPopCursor)
       THEN /\ cpc' = "idle"
            /\ cRet' = FALSE
            /\ cPopCursor' = 0
            /\ cSteps' = 0 /\ cRefreshes' = 0
       ELSE /\ cpc' = "read"
            /\ cSteps' = cSteps + 1
            /\ UNCHANGED <<cRet, cPopCursor, cRefreshes>>
    /\ UNCHANGED <<queue, cValue, producer, observer, pushed, popped, driver>>

PopRead ==
    /\ cpc = "read"
    /\ \E v \in ReadSlot(cPopCursor) : cValue' = v
    /\ cpc' = "destroy"
    /\ cSteps' = cSteps + 1
    /\ UNCHANGED <<queue, cPopCursor, cRet, cRefreshes,
                   producer, observer, pushed, popped, driver>>

\* Mutant: pop leaves the element alive.
PopDestroy_NoDestroy ==
    /\ cpc = "destroy"
    /\ cpc' = "store"
    /\ cSteps' = cSteps + 1
    /\ UNCHANGED <<queue, cPopCursor, cValue, cRet, cRefreshes,
                   producer, observer, pushed, popped, driver>>

PopDestroy ==
    /\ cpc = "destroy"
    /\ ring_' = [ring_ EXCEPT ![cPopCursor] = Dead]
    /\ cpc' = "store"
    /\ cSteps' = cSteps + 1
    /\ UNCHANGED <<capacity_, pushCursor_, popCursorCached_, popCursor_,
                   pushCursorCached_, cPopCursor, cValue, cRet, cRefreshes,
                   producer, observer, pushed, popped, driver>>

PopStore ==
    /\ cpc = "store"
    /\ popCursor_' = NextCursor(cPopCursor)
    /\ cpc' = "idle"
    /\ cRet' = TRUE
    /\ cPopCursor' = 0
    /\ cSteps' = 0 /\ cRefreshes' = 0
    /\ popped' = Append(popped, cValue)
    /\ UNCHANGED <<capacity_, ring_, pushCursor_, popCursorCached_,
                   pushCursorCached_, cValue, producer, observer, pushed,
                   driver>>

----------------------------------------------------------------------------
\* size(), empty(), full()

ObserverCall ==
    /\ opc = "idle"
    /\ \E op \in {"size", "empty", "full"} : oOp' = op
    /\ oPushCursor' = pushCursor_
    /\ opc' = "loadPop"
    /\ oRet' = 0
    /\ oRetBool' = FALSE
    /\ UNCHANGED <<queue, oPopCursor, producer, consumer, pushed, popped>>

ObserverLoadPop ==
    /\ opc = "loadPop"
    /\ oPopCursor' = popCursor_
    /\ opc' = "return"
    /\ UNCHANGED <<queue, oOp, oPushCursor, oRet, oRetBool, producer,
                   consumer,
                   pushed, popped, driver>>

ObserverReturn ==
    /\ opc = "return"
    /\ oRet' = IF oOp = "size" THEN size(oPushCursor, oPopCursor) ELSE oRet
    /\ oRetBool' = CASE oOp = "size"  -> oRetBool
                     [] oOp = "empty" -> empty(oPushCursor, oPopCursor)
                     [] oOp = "full"  -> full(oPushCursor, oPopCursor)
    /\ opc' = "idle"
    /\ oPushCursor' = 0 /\ oPopCursor' = 0
    /\ UNCHANGED <<queue, oOp, producer, consumer, pushed, popped, driver>>

----------------------------------------------------------------------------

\* The calls of the two threads and of the observer.
StressPush == PushCall /\ UNCHANGED driver
StressPop == PopCall /\ UNCHANGED driver
StressObserve == ObserverCall /\ UNCHANGED driver

Producer == \/ StressPush \/ PushCheckCache \/ PushRefresh \/ PushRecheck
            \/ PushConstruct \/ PushStore

Consumer == \/ StressPop \/ PopCheckCache \/ PopRefresh \/ PopRecheck
            \/ PopRead \/ PopDestroy \/ PopStore

Observer == StressObserve \/ ObserverLoadPop \/ ObserverReturn

Next == Producer \/ Consumer \/ Observer

\* One producer thread, one consumer thread and an observer, interleaved:
\* the producer retries push until 0..M are accepted, the consumer retries
\* pop until it has received M+1 values.
Spec == Init /\ [][Next]_vars

\* The same on a queue of any capacity the constructor accepts.
AnyCapacitySpec == InitAnyCapacity /\ [][Next]_vars

\* The stress run itself: the two threads alone, scheduled fairly.
StressNext == Producer \/ Consumer

LiveSpec == Init /\ [][StressNext]_vars
                 /\ WF_vars(Producer) /\ WF_vars(Consumer)

----------------------------------------------------------------------------
\* A single thread making one call after the other.  Before each call it
\* records the state it finds and applies the call to an abstract bounded
\* FIFO of maximum length capacity_.

Quiescent == ppc = "idle" /\ cpc = "idle" /\ opc = "idle"

AbsPush(v) ==
    IF Len(abs.q) < capacity_
    THEN [q |-> Append(abs.q, v), ret |-> TRUE, val |-> abs.val]
    ELSE [q |-> abs.q, ret |-> FALSE, val |-> abs.val]

AbsPop ==
    IF Len(abs.q) > 0
    THEN [q |-> Tail(abs.q), ret |-> TRUE, val |-> Head(abs.q)]
    ELSE [q |-> abs.q, ret |-> FALSE, val |-> abs.val]

SeqPush ==
    /\ Quiescent
    /\ PushCall
    /\ entry' = Snapshot("push")
    /\ abs' = AbsPush(Len(pushed))

SeqPop ==
    /\ Quiescent
    /\ PopCall
    /\ entry' = Snapshot("pop")
    /\ abs' = AbsPop

SeqObserve ==
    /\ Quiescent
    /\ ObserverCall
    /\ entry' = Snapshot(oOp')
    /\ abs' = abs

\* A call starts only when no call is in progress, so the steps of a call
\* are never interleaved with another call's.
SeqNext ==
    \/ SeqPush \/ PushCheckCache \/ PushRefresh \/ PushRecheck
    \/ PushConstruct \/ PushStore
    \/ SeqPop \/ PopCheckCache \/ PopRefresh \/ PopRecheck \/ PopRead
    \/ PopDestroy \/ PopStore
    \/ SeqObserve \/ ObserverLoadPop \/ ObserverReturn

SeqSpec == Init /\ [][SeqNext]_vars

----------------------------------------------------------------------------
\* Properties

\* The number of elements accepted and not yet returned.
Count == Len(pushed) - Len(popped)

\* The slots from popCursor_ up to, not including, pushCursor_ in ring order
\* modulo capacity_ + 1.
RingInterval ==
    [i \in 1..((pushCursor_ - popCursor_) % (capacity_ + 1)) |->
        ring_[(popCursor_ + i - 1) % (capacity_ + 1)]]

\* C1: with one producer and one consumer, interleaved step by step, the
\* values returned by successful pops are always a prefix of the values
\* passed to successful pushes (no duplicate, no loss, no reordering), for
\* every capacity >= 1.
C1_PoppedIsPrefixOfPushed ==
    /\ Len(popped) <= Len(pushed)
    /\ popped = SubSeq(pushed, 1, Len(popped))

\* The consumer has received all of 0..M through a queue of capacity 1.
C1_Witness ==
    /\ capacity_ = 1
    /\ Len(popped) = M + 1
    /\ cpc = "idle"

\* C2: after any single-threaded sequence of calls, size() returns the number
\* of pushes that returned true minus the number of pops that returned true,
\* and that number is in [0, capacity].
C2_SizeIsPushesMinusPops ==
    Quiescent =>
        /\ Count \in 0..capacity_
        /\ entry.op = "size" => oRet = Count

\* size() has returned capacity on a full queue whose cursors have wrapped.
C2_Witness ==
    /\ Quiescent
    /\ entry.op = "size"
    /\ oRet = capacity_
    /\ pushCursor_ < popCursor_

\* C3: on any reachable pair of live cursors, full and empty are not both
\* true, empty is true exactly when size is 0, and full is true exactly
\* when size is capacity.
C3_FullEmptySizeAgree ==
    /\ ~(full(pushCursor_, popCursor_) /\ empty(pushCursor_, popCursor_))
    /\ empty(pushCursor_, popCursor_) <=> size(pushCursor_, popCursor_) = 0
    /\ full(pushCursor_, popCursor_)
           <=> size(pushCursor_, popCursor_) = capacity_

\* The queue is full with the push cursor ahead of the pop cursor, while
\* both threads are inside a call.
C3_Witness ==
    /\ full(pushCursor_, popCursor_)
    /\ popCursor_ < pushCursor_
    /\ ppc # "idle"
    /\ cpc # "idle"

\* C4: single-threaded, push returns true exactly when fewer than capacity
\* elements are held before the call, and pop returns true exactly when at
\* least one is held before the call, however stale the cached cursors are.
C4_ResultFollowsOccupancy ==
    Quiescent =>
        /\ entry.op = "push" => (pRet <=> entry.count < capacity_)
        /\ entry.op = "pop" => (cRet <=> entry.count >= 1)

\* A push succeeded on a queue that had been full, after one pop, starting
\* from a cached pop cursor that still said full.
C4_Witness ==
    /\ Quiescent
    /\ entry.op = "push"
    /\ pRet
    /\ entry.count = capacity_ - 1
    /\ full(entry.pushCursor, entry.popCursorCached)
    /\ Len(popped) = 1

\* C5: a push that returns false and a pop that returns false leave both
\* cursors, both cached cursors, every slot and the caller's output variable
\* as they were before the call.
C5_FailureChangesNothing ==
    Quiescent =>
        /\ (entry.op = "push" /\ ~pRet) => Snapshot("push") = entry
        /\ (entry.op = "pop" /\ ~cRet) => Snapshot("pop") = entry

\* A pop has just failed on a drained queue, after a push had failed on a
\* full one.
C5_Witness ==
    /\ Quiescent
    /\ entry.op = "pop"
    /\ ~cRet
    /\ ~pRet
    /\ Len(pushed) >= 1
    /\ Len(popped) >= 1

\* Both threads of the stress run have finished.
BothFinished ==
    /\ Len(pushed) = M + 1
    /\ Len(popped) = M + 1
    /\ ppc = "idle"
    /\ cpc = "idle"

\* C6: with both threads scheduled fairly, the producer eventually has all
\* of 0..M accepted and the consumer eventually has received M+1 values.
C6_BothEventuallyFinish == <>BothFinished

\* Both threads have finished, the consumer's last pop having refreshed its
\* cached push cursor.
C6_Witness ==
    /\ BothFinished
    /\ pushCursorCached_ = pushCursor_
    /\ popCursorCached_ # popCursor_

\* C7: a call of push returns within 6 of its own steps and a call of pop
\* within 7, each loads the other thread's cursor at most once, and the next
\* step of a call in progress is enabled whatever the other thread does.
C7_WaitFree ==
    /\ ppc # "idle" => pSteps <= 5 /\ (pSteps = 5 => ppc = "store")
    /\ cpc # "idle" => cSteps <= 6 /\ (cSteps = 6 => cpc = "store")
    /\ pRefreshes <= 1
    /\ cRefreshes <= 1
    /\ ppc # "idle" => ENABLED Producer
    /\ cpc # "idle" => ENABLED Consumer

\* A push and a pop that both took their slow path are each at their last
\* step.
C7_Witness ==
    /\ ppc = "store" /\ pSteps = 5 /\ pRefreshes = 1
    /\ cpc = "store" /\ cSteps = 6 /\ cRefreshes = 1

\* C8: size() called while the producer and the consumer run returns a
\* value in [0, capacity], although it loads the two cursors in two steps.
C8_ConcurrentSizeInRange ==
    /\ (opc = "return" /\ oOp = "size")
           => size(oPushCursor, oPopCursor) \in 0..capacity_
    /\ oRet \in 0..capacity_

\* size() is about to return capacity = 2 for a queue that has accepted one
\* element in all: it loaded pushCursor_ before that push and popCursor_
\* after the pop that followed it.
C8_Witness ==
    /\ opc = "return"
    /\ oOp = "size"
    /\ capacity_ = 2
    /\ Len(pushed) = 1
    /\ size(oPushCursor, oPopCursor) = capacity_

\* C9: single-threaded, the ring interval from popCursor up to pushCursor
\* holds exactly the elements of an abstract bounded FIFO of maximum length
\* capacity driven by the same calls, and each push and pop returns what the
\* abstract queue returns.
C9_RefinesBoundedFifo ==
    Quiescent =>
        /\ RingInterval = abs.q
        /\ entry.op = "push" => pRet = abs.ret
        /\ entry.op = "pop" => cRet = abs.ret /\ cValue = abs.val

\* The queue is full after both cursors have gone round the ring twice.
C9_Witness ==
    /\ Quiescent
    /\ capacity_ >= 2
    /\ Len(pushed) > 2 * (capacity_ + 1)
    /\ Len(popped) > 2 * (capacity_ + 1) - capacity_
    /\ Len(abs.q) = capacity_

CursorsInRange ==
    /\ pushCursor_ \in 0..capacity_
    /\ popCursor_ \in 0..capacity_
    /\ popCursorCached_ \in 0..capacity_
    /\ pushCursorCached_ \in 0..capacity_

\* C10: the two cursors and the two cached cursors always lie in
\* [0, capacity]; a successful push moves pushCursor from c to c+1 when
\* c < capacity and from capacity to 0, and a successful pop moves popCursor
\* the same way.
C10_CursorsAdvanceModCapacityPlusOne ==
    [][/\ CursorsInRange
       /\ CursorsInRange'
       /\ pushCursor_' = IF pushed' = pushed THEN pushCursor_
                         ELSE IF pushCursor_ < capacity_ THEN pushCursor_ + 1
                         ELSE 0
       /\ popCursor_' = IF popped' = popped THEN popCursor_
                        ELSE IF popCursor_ < capacity_ THEN popCursor_ + 1
                        ELSE 0]_vars

\* Both cursors have wrapped from capacity to 0.
C10_Witness ==
    /\ pushCursor_ = 0
    /\ popCursor_ = 0
    /\ Len(pushed) = capacity_ + 1
    /\ Len(popped) = capacity_ + 1

\* The values computed by the call steps that are about to be taken.
ArithInProgress ==
    UNION {
        IF ppc \in {"check", "recheck"}
            THEN fullArith(pPushCursor, popCursorCached_) ELSE {},
        IF ppc = "store" THEN NextCursorArith(pPushCursor) ELSE {},
        IF cpc = "store" THEN NextCursorArith(cPopCursor) ELSE {},
        IF opc = "return" /\ oOp = "size"
            THEN sizeArith(oPushCursor, oPopCursor) ELSE {},
        IF opc = "return" /\ oOp = "full"
            THEN fullArith(oPushCursor, oPopCursor) ELSE {} }

\* C11: no subexpression evaluated by push, pop, size() or full() has a
\* value outside [0, capacity], wrap-around of the unsigned type aside.
C11_NoArithOutsideRange == ArithInProgress \subseteq 0..capacity_

\* C12: the cached cursors are never ahead of the live ones: the occupancy
\* seen through cachedPopCursor is at least the true one, the occupancy seen
\* through cachedPushCursor is at most the true one; so a push that goes on
\* to construct finds fewer than capacity elements held, and a pop that goes
\* on to read finds at least one.
C12_CachedNeverAhead ==
    /\ size(pushCursor_, popCursor_) = Count
    /\ size(pushCursor_, popCursorCached_) >= size(pushCursor_, popCursor_)
    /\ size(pushCursorCached_, popCursor_) <= size(pushCursor_, popCursor_)
    /\ ppc \in {"construct", "store"} => Count < capacity_
    /\ cpc \in {"read", "destroy", "store"} => Count >= 1

\* A push is about to construct on the verdict of a cached pop cursor that
\* is strictly behind the live one, while a pop is in progress.
C12_Witness ==
    /\ size(pushCursor_, popCursorCached_) > size(pushCursor_, popCursor_)
    /\ ppc = "construct" /\ pRefreshes = 0
    /\ cpc # "idle"

\* The producer has chosen slot pPushCursor and not yet published the
\* advanced pushCursor_.
ProducerInSlot == ppc \in {"construct", "store"}

\* The consumer is reading or destroying slot cPopCursor, or has done so and
\* not yet published the advanced popCursor_.
ConsumerInSlot == cpc \in {"read", "destroy", "store"}

\* C13: the two threads are never in the same slot at once, the element is
\* in its slot before the new pushCursor is published, and it has been read
\* and destroyed before the new popCursor is published.
C13_NoSlotSharedAtOnce ==
    /\ (ProducerInSlot /\ ConsumerInSlot) => pPushCursor # cPopCursor
    /\ ProducerInSlot => pushCursor_ = pPushCursor
    /\ ConsumerInSlot => popCursor_ = cPopCursor
    /\ ppc = "store" => ring_[pPushCursor] = pValue
    /\ cpc = "destroy" => cValue = ring_[cPopCursor]
    /\ cpc = "store" => ring_[cPopCursor] = Dead

\* The producer has constructed its element and the consumer has read its
\* own, neither having published its cursor yet.
C13_Witness ==
    /\ ppc = "store"
    /\ cpc = "destroy"
    /\ pPushCursor # cPopCursor

PushReturnsFalse == ppc # "idle" /\ ppc' = "idle" /\ pushed' = pushed
PopReturnsFalse == cpc # "idle" /\ cpc' = "idle" /\ popped' = popped

\* C14: a push returns false only on the verdict of the live popCursor it
\* loaded in its refresh, and that verdict is full only if capacity elements
\* were held at the moment of the load; a pop returns false only on the
\* verdict of the live pushCursor it loaded, and that verdict is empty only
\* if nothing was held at the moment of the load.
C14_FailureOnlyWhenReallyFullOrEmpty ==
    [][/\ (ppc = "refresh" /\ ppc' # ppc) =>
              /\ popCursorCached_' = popCursor_
              /\ full(pPushCursor, popCursor_) => Count = capacity_
       /\ ppc = "recheck" => popCursorCached_' = popCursorCached_
       /\ PushReturnsFalse =>
              /\ ppc = "recheck"
              /\ pRefreshes = 1
              /\ full(pPushCursor, popCursorCached_)
       /\ (cpc = "refresh" /\ cpc' # cpc) =>
              /\ pushCursorCached_' = pushCursor_
              /\ empty(pushCursor_, cPopCursor) => Count = 0
       /\ cpc = "recheck" => pushCursorCached_' = pushCursorCached_
       /\ PopReturnsFalse =>
              /\ cpc = "recheck"
              /\ cRefreshes = 1
              /\ empty(pushCursorCached_, cPopCursor)]_vars

\* A pop is about to return false on a push cursor it loaded when the queue
\* was empty, and a push is about to return false on a pop cursor it loaded
\* after the queue had filled up.
C14_Witness ==
    /\ ppc = "recheck" /\ full(pPushCursor, popCursorCached_)
    /\ cpc = "recheck" /\ empty(pushCursorCached_, cPopCursor)

\* C15: pushCursor_ and popCursorCached_ change only in steps of push,
\* popCursor_ and pushCursorCached_ only in steps of pop; size(), empty() and
\* full() change nothing of the queue; capacity_ never changes.
C15_SingleWriter ==
    [][/\ capacity_' = capacity_
       /\ (pushCursor_' # pushCursor_ \/ popCursorCached_' # popCursorCached_)
              => (ppc' # ppc /\ UNCHANGED <<consumer, observer>>)
       /\ (popCursor_' # popCursor_ \/ pushCursorCached_' # pushCursorCached_)
              => (cpc' # cpc /\ UNCHANGED <<producer, observer>>)
       /\ opc' # opc => UNCHANGED queue]_vars

\* Every cursor and every cached cursor has been written, and size() has
\* returned a value.
C15_Witness ==
    /\ pushCursor_ # 0 /\ popCursorCached_ # 0
    /\ popCursor_ # 0 /\ pushCursorCached_ # 0
    /\ opc = "idle" /\ oOp = "size" /\ oRet # 0

\* C16: a call of push loads the live popCursor_ exactly when its check of
\* popCursorCached_ says full, and a call of pop loads the live pushCursor_
\* exactly when its check of pushCursorCached_ says empty; a call whose
\* cached check passes reaches its slot without having loaded the other
\* thread's cursor.
C16_LiveLoadIffCacheSaysNo ==
    [][/\ pRefreshes' > pRefreshes
              => (pRefreshes = 0 /\ full(pPushCursor, popCursorCached_))
       /\ (ppc = "check" /\ ppc' # ppc /\ full(pPushCursor, popCursorCached_))
              => ppc' = "refresh"
       /\ (ppc = "refresh" /\ ppc' # ppc) => pRefreshes' = pRefreshes + 1
       /\ (ppc = "check" /\ ppc' # ppc /\ ~full(pPushCursor, popCursorCached_))
              => (ppc' = "construct" /\ pRefreshes' = 0)
       /\ (ppc \in {"construct", "store"} /\ ppc' # ppc)
              => pRefreshes' <= pRefreshes
       /\ cRefreshes' > cRefreshes
              => (cRefreshes = 0 /\ empty(pushCursorCached_, cPopCursor))
       /\ (cpc = "check" /\ cpc' # cpc /\ empty(pushCursorCached_, cPopCursor))
              => cpc' = "refresh"
       /\ (cpc = "refresh" /\ cpc' # cpc) => cRefreshes' = cRefreshes + 1
       /\ (cpc = "check" /\ cpc' # cpc
               /\ ~empty(pushCursorCached_, cPopCursor))
              => (cpc' = "read" /\ cRefreshes' = 0)
       /\ (cpc \in {"read", "destroy", "store"} /\ cpc' # cpc)
              => cRefreshes' <= cRefreshes]_vars

\* A push is about to publish its cursor without having loaded popCursor_,
\* its cached copy being stale, while a pop has loaded pushCursor_.
C16_Witness ==
    /\ ppc = "store" /\ pRefreshes = 0
    /\ popCursorCached_ # popCursor_
    /\ cpc = "recheck" /\ cRefreshes = 1

\* C17: on a queue constructed with capacity 0 no push returns true, so the
\* number of elements accepted and not yet popped never exceeds capacity.
C17_CapacityZeroAcceptsNothing ==
    /\ capacity_ = 0 => pushed = <<>>
    /\ Count <= capacity_

\* The slots that hold a live element.
LiveSlots == {i \in DOMAIN ring_ : ring_[i] # Dead}

\* The indices from popCursor_ up to, not including, pushCursor_, walking
\* forward around the capacity_ + 1 slots.
IntervalSlots ==
    {(popCursor_ + k) % (capacity_ + 1) :
        k \in 0..(((pushCursor_ - popCursor_) % (capacity_ + 1)) - 1)}

\* C18: push constructs only in a slot holding no live element, pop reads and
\* destroys only a slot holding a live element, and whenever neither a push
\* nor a pop is in progress the live slots are exactly the ring interval from
\* popCursor_ up to, not including, pushCursor_: their number is size() and
\* the sentinel slot at pushCursor_ is not live.
C18_LifetimesPairedPerSlot ==
    /\ ppc = "construct" => ring_[pPushCursor] = Dead
    /\ cpc \in {"read", "destroy"} => ring_[cPopCursor] # Dead
    /\ (ppc = "idle" /\ cpc = "idle") =>
          /\ LiveSlots = IntervalSlots
          /\ Cardinality(LiveSlots) = size(pushCursor_, popCursor_)
          /\ ring_[pushCursor_] = Dead

C18_Witness ==
    /\ ppc = "idle" /\ cpc = "idle"
    /\ popCursor_ > pushCursor_
    /\ Cardinality(LiveSlots) = capacity_
    /\ capacity_ = MaxCapacity

\* C19: a freshly constructed queue of capacity >= 1 is empty and agrees with
\* its caches: until the first push is accepted the four cursors hold one
\* in-range value, size() is 0, empty() is true and full() is false; a pop
\* made before any push returns false and the first push returns true.
C19_FreshQueueIsEmpty ==
    /\ pushed = <<>> =>
          /\ pushCursor_ \in 0..capacity_
          /\ popCursor_ = pushCursor_
          /\ popCursorCached_ = pushCursor_
          /\ pushCursorCached_ = pushCursor_
          /\ size(pushCursor_, popCursor_) = 0
          /\ empty(pushCursor_, popCursor_)
          /\ ~full(pushCursor_, popCursor_)
    /\ (Quiescent /\ pushed = <<>>) =>
          /\ entry.op = "size" => oRet = 0
          /\ entry.op = "empty" => oRetBool
          /\ entry.op = "full" => ~oRetBool
          /\ entry.op = "pop" => ~cRet
    /\ (Quiescent /\ entry.op = "push" /\ entry.count = 0 /\ popped = <<>>) =>
          pRet /\ Len(pushed) = 1

\* The first push on a fresh queue has returned true.
C19_Witness ==
    /\ Quiescent
    /\ entry.op = "push"
    /\ entry.pushCursor = entry.popCursor
    /\ entry.popCursorCached = entry.pushCursorCached
    /\ pRet
    /\ pushed = <<0>>
    /\ popped = <<>>

====
